---------------------------- MODULE Spec2Model ----------------------------
(***************************************************************************)
(* Model of projects/etcd/etcdserver_fuzzer.go: the two go-fuzz targets    *)
(* Fuzzapply and FuzzapplierV3backendApply, their deferred panic handlers  *)
(* catchPanics and catchPanics2, the acceptance predicate shouldPass and   *)
(* the package init() that builds the shared applier ab.                   *)
(*                                                                         *)
(* The fuzzing engine is the only process: it runs init() once, then calls *)
(* a target with a byte buffer, observes how the call ended, and goes on   *)
(* to the next iteration.  One action models one whole call, deferred      *)
(* functions included.                                                     *)
(*                                                                         *)
(* External collaborators are modelled by their contract:                  *)
(*  - the go-fuzz-headers consumer (GetInt, GetBool, GenerateStruct) reads *)
(*    the buffer front to back and fails when the buffer is exhausted;     *)
(*  - srv.apply / ab.Apply either return or panic with a value; which one  *)
(*    is the environment's choice.                                         *)
(***************************************************************************)
EXTENDS Integers, Sequences, FiniteSets, TLC

VARIABLES
    pc,       \* position of the fuzzing engine: "boot", "idle", "returned"
    ab,       \* the package variable ab: "nil" or the applier of "srv0"
    shared,   \* the harness context built by init(): backend state and
              \* the number of requests applied to it so far
    openTmp,  \* per-call storage backends that are still open
    last      \* what the engine observed of the call that just ended

vars == <<pc, ab, shared, openTmp, last>>

---------------------------------------------------------------------------
(* Bounds of the model.                                                    *)

\* longest byte buffer handed to Fuzzapply
MaxLen == 5
\* longest byte buffer handed to FuzzapplierV3backendApply
MaxReqLen == 3
\* requests the shared applier may apply before the model stops calling it
MaxApplied == 2

\* byte values of the buffers handed to Fuzzapply: as the integer N they
\* give the counts 0 (0 and 20), 1, 2 (22) and 5; as a payload length 0 is
\* the empty payload
ApplyBytes == {0, 1, 5, 20, 22}
\* byte values of the buffers handed to FuzzapplierV3backendApply: every
\* combination of the three guarded request fields occurs, and both parities
ReqBytes == {0, 1, 2, 4, 5, 7}

RECURSIVE SeqsUpTo(_, _)
SeqsUpTo(S, n) ==
    IF n = 0 THEN {<<>>}
    ELSE LET shorter == SeqsUpTo(S, n - 1)
         IN  shorter \cup {Append(s, b) : s \in {t \in shorter : Len(t) = n - 1}, b \in S}

ApplyBuffers == SeqsUpTo(ApplyBytes, MaxLen)
ReqBuffers == SeqsUpTo(ReqBytes, MaxReqLen)

\* the three kinds of value a recovered panic may carry
Kinds == {"string", "runtime.Error", "error"}

\* messages the apply operations may panic with
Messages ==
    { "",
      "index out of range",
      "unmarshal should never fail",
      "should never fai",
      "1.x is not in dotted-tri format",
      "strconv.ParseInt: parsing x",
      "x is not a valid semver identifier",
      "invalid downgrade; server version is lower than determined cluster version",
      "invalid downgrade" }

\* how an apply operation may end: it returns, or panics with a value; wrote
\* is the number of mutations it made to its harness context before that
Outcomes(ws) ==
    {[panics |-> FALSE, kind |-> "none", msg |-> "", wrote |-> w] : w \in ws}
    \cup {[panics |-> TRUE, kind |-> k, msg |-> m, wrote |-> w] :
              k \in Kinds, m \in Messages, w \in ws}

NoOutcome == [panics |-> FALSE, kind |-> "none", msg |-> "", wrote |-> 0]

---------------------------------------------------------------------------
(* strings.Contains                                                        *)

Contains(s, substr) ==
    \E i \in 0..(Len(s) - Len(substr)) : SubSeq(s, i + 1, i + Len(substr)) = substr

---------------------------------------------------------------------------
(* The go-fuzz-headers consumer.  A decode reads from position pos of data  *)
(* and answers [ok, val, pos]: pos is the cursor after the decode.          *)

\* f.GetInt(): one byte, as an int
GetInt(data, pos) ==
    IF pos >= Len(data)
    THEN [ok |-> FALSE, val |-> 0, pos |-> pos]
    ELSE [ok |-> TRUE, val |-> data[pos + 1], pos |-> pos + 1]

\* f.GetBool(): one byte, true when it is even
GetBool(data, pos) ==
    IF pos >= Len(data)
    THEN [ok |-> FALSE, val |-> FALSE, pos |-> pos]
    ELSE [ok |-> TRUE, val |-> (data[pos + 1] % 2 = 0), pos |-> pos + 1]

NoEntry == [Term |-> 0, Index |-> 0, Type |-> 0, Data |-> <<>>]

\* f.GenerateStruct(&ent) for a raftpb.Entry: one byte for the scalar fields
\* (Term, Index, Type), one byte for the payload, whose value 0 gives the
\* empty payload
GenerateEntry(data, pos) ==
    IF pos >= Len(data) THEN [ok |-> FALSE, val |-> NoEntry, pos |-> pos]
    ELSE IF pos + 1 >= Len(data) THEN [ok |-> FALSE, val |-> NoEntry, pos |-> pos + 1]
    ELSE [ok |-> TRUE,
          val |-> [Term |-> data[pos + 1], Index |-> data[pos + 1],
                   Type |-> data[pos + 1] % 2,
                   Data |-> IF data[pos + 2] = 0 THEN <<>> ELSE <<data[pos + 2]>>],
          pos |-> pos + 2]

NoRequest ==
    [ClusterVersionSet |-> FALSE, ClusterMemberAttrSet |-> FALSE,
     DowngradeInfoSet |-> FALSE]

\* f.GenerateStruct(rr) for a pb.InternalRaftRequest: one byte, whose low
\* three bits say which of the three guarded fields are non-nil
GenerateRequest(data, pos) ==
    IF pos >= Len(data) THEN [ok |-> FALSE, val |-> NoRequest, pos |-> pos]
    ELSE [ok |-> TRUE,
          val |-> [ClusterVersionSet |-> (data[pos + 1] % 2 = 1),
                   ClusterMemberAttrSet |-> ((data[pos + 1] \div 2) % 2 = 1),
                   DowngradeInfoSet |-> ((data[pos + 1] \div 4) % 2 = 1)],
          pos |-> pos + 1]

---------------------------------------------------------------------------
(* Harness contexts and storage backends.                                   *)

\* betesting.NewDefaultTmpBackend, schema.CreateMetaBucket,
\* cindex.NewConsistentIndex, &EtcdServer{...}: a context on a freshly
\* opened backend, nothing applied to it yet
NewHarnessContext(id) == [id |-> id, be |-> "open", writes |-> 0]

\* betesting.Close(t, be)
CloseBackend(ctx) == [ctx EXCEPT !.be = "closed"]

\* the context before init() has run
NoContext == [id |-> "none", be |-> "none", writes |-> 0]

\* init(): builds the context of ab; the deferred betesting.Close(t, be)
\* runs when init() returns
InitContext == CloseBackend(NewHarnessContext("srv0"))

---------------------------------------------------------------------------
(* What the engine observes of one call.                                    *)

Blank(target, data) ==
    [target    |-> target,     \* which fuzz target was called
     data      |-> data,       \* the byte buffer
     exit      |-> "return",   \* "return", or "panic" for a re-raised failure
     status    |-> 0,          \* the int returned (0 when the call panicked)
     raised    |-> "",         \* the value the call panicked with
     suppressed |-> FALSE,     \* a failure was recovered and not re-raised
     position  |-> 0,          \* the consumer's cursor when the call ended
     number    |-> -1,         \* the integer N decoded by Fuzzapply, -1 if none
     gens      |-> <<>>,       \* the GenerateStruct(&ent) calls, in order
     ents      |-> <<>>,       \* the entries passed to srv.apply
     req       |-> NoRequest,  \* the decoded request
     auxReads  |-> 0,          \* GetBool calls made by shouldPass
     applyCalls |-> 0,         \* calls of srv.apply / ab.Apply
     fail      |-> NoOutcome,  \* how that apply call ended
     ctx       |-> "none",     \* identity of the context apply ran on
     seen      |-> 0,          \* mutations already in that context
     acquired  |-> 0,          \* per-call backends opened
     released  |-> 0]          \* per-call backends closed

NoCall == Blank("none", <<>>)

---------------------------------------------------------------------------
(* Fuzzapply.                                                               *)

\* a rejection that reports success
Rejected_ReturnsOne(b) == [b EXCEPT !.status = 1]

\* `return 0`: the call rejects its input
Rejected(b) == [b EXCEPT !.status = 0]

\* the loop bound without the reduction modulo 20
EntryCount_NoMod(number) == number

\* number%20, the bound of the generation loop
EntryCount(number) == number % 20

\* a generation loop that skips an entry with an empty payload and goes on
RECURSIVE GenEntries_SkipEmpty(_, _, _, _, _, _)
GenEntries_SkipEmpty(data, pos, i, count, ents, gens) ==
    IF i >= count THEN [ok |-> TRUE, ents |-> ents, pos |-> pos, gens |-> gens]
    ELSE LET g == GenerateEntry(data, pos)
         IN  IF ~g.ok
             THEN [ok |-> FALSE, ents |-> ents, pos |-> g.pos, gens |-> Append(gens, g)]
             ELSE IF Len(g.val.Data) = 0
             THEN GenEntries_SkipEmpty(data, g.pos, i + 1, count, ents, Append(gens, g))
             ELSE GenEntries_SkipEmpty(data, g.pos, i + 1, count, Append(ents, g.val),
                                       Append(gens, g))

\* the generation loop: for i := 0; i < number%20; i++ { ... }.  Answers
\* [ok, ents, pos, gens]; ok is FALSE when the loop hit a `return 0`
RECURSIVE GenEntries(_, _, _, _, _, _)
GenEntries(data, pos, i, count, ents, gens) ==
    IF i >= count THEN [ok |-> TRUE, ents |-> ents, pos |-> pos, gens |-> gens]
    ELSE LET g == GenerateEntry(data, pos)
         IN  IF ~g.ok
             THEN [ok |-> FALSE, ents |-> ents, pos |-> g.pos, gens |-> Append(gens, g)]
             ELSE IF Len(g.val.Data) = 0
             THEN [ok |-> FALSE, ents |-> ents, pos |-> g.pos, gens |-> Append(gens, g)]
             ELSE GenEntries(data, g.pos, i + 1, count, Append(ents, g.val),
                             Append(gens, g))

\* "Setup server" and srv.apply(ents, &raftpb.ConfState{}), then `return 1`:
\* a context is built on a fresh temporary backend and apply runs on it
ApplyEntries(b, ents, out) ==
    LET ctx == NewHarnessContext("percall")
        b2 == [b EXCEPT !.acquired = 1, !.ctx = ctx.id, !.seen = ctx.writes,
                        !.ents = ents, !.applyCalls = 1, !.fail = out]
    IN  IF out.panics THEN [b2 EXCEPT !.exit = "panic", !.raised = out.msg]
        ELSE [b2 EXCEPT !.status = 1]

\* the body of Fuzzapply, up to its return statement or its panic
FuzzapplyBody(data, out) ==
    LET b0 == Blank("Fuzzapply", data)
        n == GetInt(data, 0)
    IN  IF ~n.ok THEN Rejected([b0 EXCEPT !.position = n.pos])
        ELSE LET g == GenEntries(data, n.pos, 0, EntryCount(n.val), <<>>, <<>>)
                 b1 == [b0 EXCEPT !.number = n.val, !.position = g.pos,
                                  !.gens = g.gens]
             IN  IF ~g.ok THEN Rejected(b1)
                 ELSE IF Len(g.ents) = 0 THEN Rejected(b1)
                 ELSE ApplyEntries(b1, g.ents, out)

\* a close that is not deferred: it runs only when the body returns
DeferredClose_OnReturnOnly(b) ==
    IF b.exit = "return" THEN [b EXCEPT !.released = b.acquired] ELSE b

\* defer betesting.Close(t, be): registered right after the backend is
\* opened, it runs however the call ends
DeferredClose(b) == [b EXCEPT !.released = b.acquired]

\* the switch of catchPanics: the message derived from the recovered value
PanicMessage(r) ==
    CASE r.kind = "string" -> r.msg
      [] r.kind = "runtime.Error" -> r.msg
      [] OTHER -> ""

\* catchPanics, given a recovered value r: re-panic with the derived message
\* unless it contains "should never fail"
catchPanics(r) ==
    LET err == PanicMessage(r)
    IN  IF ~Contains(err, "should never fail")
        THEN [repanic |-> TRUE, val |-> err]
        ELSE [repanic |-> FALSE, val |-> ""]

\* a deferred handler h run on how the body ended: recover() is nil unless
\* the body panicked; a recovered call returns the zero value of its
\* unnamed int result
Recovered(b, h) ==
    IF b.exit # "panic" THEN b
    ELSE IF h.repanic
    THEN [b EXCEPT !.exit = "panic", !.raised = h.val, !.status = 0]
    ELSE [b EXCEPT !.exit = "return", !.raised = "", !.status = 0,
                   !.suppressed = TRUE]

\* Fuzzapply(data), with srv.apply ending as out if it is reached: the
\* body, then the deferred functions, last registered first
Fuzzapply(data, out) ==
    LET b == DeferredClose(FuzzapplyBody(data, out))
    IN  Recovered(b, catchPanics(b.fail))

---------------------------------------------------------------------------
(* FuzzapplierV3backendApply.                                               *)

\* the switch of catchPanics2 without its `case error`
PanicMessage2_NoErrorCase(r) ==
    CASE r.kind = "string" -> r.msg
      [] r.kind = "runtime.Error" -> r.msg
      [] OTHER -> ""

\* the switch of catchPanics2
PanicMessage2(r) ==
    CASE r.kind = "string" -> r.msg
      [] r.kind = "runtime.Error" -> r.msg
      [] r.kind = "error" -> r.msg
      [] OTHER -> ""

\* catchPanics2, given a recovered value r
catchPanics2(r) ==
    LET err == PanicMessage2(r)
    IN  IF Contains(err, "is not in dotted-tri format")
        THEN [repanic |-> FALSE, val |-> ""]
        ELSE IF Contains(err, "strconv.ParseInt: parsing")
        THEN [repanic |-> FALSE, val |-> ""]
        ELSE IF Contains(err, "is not a valid semver identifier")
        THEN [repanic |-> FALSE, val |-> ""]
        ELSE IF Contains(err, "invalid downgrade; server version is lower than determined cluster version")
        THEN [repanic |-> FALSE, val |-> ""]
        ELSE [repanic |-> TRUE, val |-> err]

\* shouldContinue, err := f.GetBool(); if err != nil || !shouldContinue
\* { return false }; return true
AuxBool(data, pos) ==
    LET c == GetBool(data, pos)
    IN  [pass |-> ~(~c.ok \/ ~c.val), pos |-> c.pos, auxReads |-> 1]

\* shouldPass without its DowngradeInfoSet case
shouldPass_NoDowngradeCase(r, data, pos) ==
    IF r.ClusterVersionSet THEN AuxBool(data, pos)
    ELSE IF r.ClusterMemberAttrSet THEN AuxBool(data, pos)
    ELSE [pass |-> TRUE, pos |-> pos, auxReads |-> 0]

\* shouldPass(r, f), the consumer f being at pos: [pass, pos, auxReads]
shouldPass(r, data, pos) ==
    IF r.ClusterVersionSet THEN AuxBool(data, pos)
    ELSE IF r.ClusterMemberAttrSet THEN AuxBool(data, pos)
    ELSE IF r.DowngradeInfoSet THEN AuxBool(data, pos)
    ELSE [pass |-> TRUE, pos |-> pos, auxReads |-> 0]

\* a context built anew for the call instead of the one behind ab
RequestContext_Fresh(sh) == NewHarnessContext("percall")

\* the context behind the package variable ab: the one init() built
RequestContext(sh) == sh

\* ab.Apply(rr, true), then `return 1`
ApplyRequest(b, ctx, out) ==
    LET b2 == [b EXCEPT !.ctx = ctx.id, !.seen = ctx.writes, !.applyCalls = 1,
                        !.fail = out]
    IN  IF out.panics THEN [b2 EXCEPT !.exit = "panic", !.raised = out.msg]
        ELSE [b2 EXCEPT !.status = 1]

\* the body of FuzzapplierV3backendApply
FuzzapplierV3backendApplyBody(data, out, sh) ==
    LET b0 == Blank("FuzzapplierV3backendApply", data)
        d == GenerateRequest(data, 0)
    IN  IF ~d.ok THEN Rejected([b0 EXCEPT !.position = d.pos])
        ELSE LET sp == shouldPass(d.val, data, d.pos)
                 b1 == [b0 EXCEPT !.req = d.val, !.position = sp.pos,
                                  !.auxReads = sp.auxReads]
             IN  IF ~sp.pass THEN Rejected(b1)
                 ELSE ApplyRequest(b1, RequestContext(sh), out)

\* FuzzapplierV3backendApply(data), with ab.Apply ending as out if reached
FuzzapplierV3backendApply(data, out, sh) ==
    LET b == FuzzapplierV3backendApplyBody(data, out, sh)
    IN  Recovered(b, catchPanics2(b.fail))

\* the shared context after a call observed as l: what apply wrote to it
SharedAfter(sh, l) ==
    IF l.applyCalls = 1 /\ l.ctx = sh.id
    THEN [sh EXCEPT !.writes = @ + l.fail.wrote]
    ELSE sh

---------------------------------------------------------------------------
(* The engine.                                                              *)

Init ==
    /\ pc = "boot"
    /\ ab = "nil"
    /\ shared = NoContext
    /\ openTmp = 0
    /\ last = NoCall

\* package initialisation: func init()
init ==
    /\ pc = "boot"
    /\ pc' = "idle"
    /\ shared' = InitContext
    /\ ab' = "srv0"
    /\ UNCHANGED <<openTmp, last>>

\* the apply outcomes that matter for a buffer: none when apply is not reached
OutcomesFor(reached, ws) == IF reached THEN Outcomes(ws) ELSE {NoOutcome}

CallFuzzapply ==
    /\ pc = "idle"
    /\ \E data \in ApplyBuffers :
         \E out \in OutcomesFor(FuzzapplyBody(data, NoOutcome).applyCalls = 1, {1}) :
            last' = Fuzzapply(data, out)
    /\ openTmp' = openTmp + last'.acquired - last'.released
    /\ shared' = SharedAfter(shared, last')
    /\ pc' = "returned"
    /\ UNCHANGED ab

CallFuzzapplierV3backendApply ==
    /\ pc = "idle"
    /\ shared.writes < MaxApplied
    /\ \E data \in ReqBuffers :
         \E out \in OutcomesFor(
                FuzzapplierV3backendApplyBody(data, NoOutcome, shared).applyCalls = 1,
                {0, 1}) :
            last' = FuzzapplierV3backendApply(data, out, shared)
    /\ openTmp' = openTmp + last'.acquired - last'.released
    /\ shared' = SharedAfter(shared, last')
    /\ pc' = "returned"
    /\ UNCHANGED ab

\* the call returned: the engine goes on to its next input
NextIteration ==
    /\ pc = "returned"
    /\ last.exit = "return"
    /\ pc' = "idle"
    /\ last' = NoCall
    /\ UNCHANGED <<ab, shared, openTmp>>

\* the call panicked: the process dies, and a new one starts from init()
Restart ==
    /\ pc = "returned"
    /\ last.exit = "panic"
    /\ pc' = "boot"
    /\ ab' = "nil"
    /\ shared' = NoContext
    /\ openTmp' = 0
    /\ last' = NoCall

Next ==
    \/ init
    \/ CallFuzzapply
    \/ CallFuzzapplierV3backendApply
    \/ NextIteration
    \/ Restart

Spec == Init /\ [][Next]_vars

---------------------------------------------------------------------------
(* The claims.                                                              *)

Returned == pc = "returned"
InFuzzapply == Returned /\ last.target = "Fuzzapply"
InRequestApply == Returned /\ last.target = "FuzzapplierV3backendApply"
ApplyFailed == last.applyCalls = 1 /\ last.fail.panics

\* the allow-list of the request-apply oracle, as the specification gives it
RequestAllowList ==
    { "is not in dotted-tri format",
      "strconv.ParseInt: parsing",
      "is not a valid semver identifier",
      "invalid downgrade; server version is lower than determined cluster version" }

OnRequestAllowList(msg) == \E frag \in RequestAllowList : Contains(msg, frag)

\* C1 (as claimed): whenever a target's panic oracle suppresses the failure
\* of its apply call, the call returns status 1; in particular a request
\* apply that fails with the invalid-downgrade message ends with status 1.
C1_SuppressedReturnsOne ==
    /\ Returned /\ last.suppressed => last.exit = "return" /\ last.status = 1
    /\ InRequestApply /\ ApplyFailed
          /\ last.fail.msg = "invalid downgrade; server version is lower than determined cluster version"
       => last.exit = "return" /\ last.status = 1

\* C2: in FuzzapplierV3backendApply, a failure of ab.Apply whose message
\* contains one of the four allow-listed fragments never leaves the call;
\* every other failure with a non-empty message leaves it as a panic
\* carrying that same message.
C2_RequestOracle ==
    InRequestApply /\ ApplyFailed =>
        /\ OnRequestAllowList(last.fail.msg) => last.exit = "return" /\ last.raised = ""
        /\ ~OnRequestAllowList(last.fail.msg) /\ last.fail.msg # ""
              => last.exit = "panic" /\ last.raised = last.fail.msg

\* a generic error value carrying an allow-listed fragment was suppressed
C2_Witness ==
    /\ InRequestApply /\ ApplyFailed
    /\ last.fail.kind = "error"
    /\ last.fail.msg = "1.x is not in dotted-tri format"
    /\ last.exit = "return"

\* C3 (as claimed): in Fuzzapply, whatever the kind of the recovered value,
\* the failure of srv.apply is suppressed if and only if its message
\* contains "should never fail", and otherwise it is re-raised with the same
\* message.
C3_EntryOracle ==
    InFuzzapply /\ ApplyFailed =>
        /\ last.suppressed <=> Contains(last.fail.msg, "should never fail")
        /\ ~Contains(last.fail.msg, "should never fail")
              => last.exit = "panic" /\ last.raised = last.fail.msg

\* C4 (as claimed): once init() has completed, the storage backend of the
\* shared applier's context is open.
C4_SharedBackendOpen == pc # "boot" => shared.be = "open"

\* C5: a call ends in exactly one of three ways: it returns 0, it returns 1,
\* or it panics; and it returns 1 only if the apply operation was invoked.
C5_Outcomes ==
    Returned =>
        /\ \/ last.exit = "return" /\ last.status \in {0, 1}
           \/ last.exit = "panic" /\ ~last.suppressed
        /\ last.exit = "return" /\ last.status = 1 => last.applyCalls = 1

\* a request apply call returned 1
C5_Witness == InRequestApply /\ last.exit = "return" /\ last.status = 1

\* the second byte of the buffer decodes as the boolean true
AuxIsTrue(data) == Len(data) >= 2 /\ data[2] % 2 = 0
Guarded(r) == r.ClusterVersionSet \/ r.ClusterMemberAttrSet \/ r.DowngradeInfoSet

\* C6: in FuzzapplierV3backendApply, a decoded request with one of the three
\* guarded fields populated reaches ab.Apply only if one auxiliary boolean
\* decodes and is true, and is rejected with status 0 otherwise; a request
\* with none of them reads no boolean and always reaches ab.Apply.
C6_ShouldPass ==
    InRequestApply /\ Len(last.data) >= 1 =>
        /\ Guarded(last.req) =>
              /\ last.auxReads = 1
              /\ last.applyCalls = 1 <=> AuxIsTrue(last.data)
              /\ ~AuxIsTrue(last.data) => last.exit = "return" /\ last.status = 0
        /\ ~Guarded(last.req) =>
              /\ last.auxReads = 0
              /\ last.position = 1
              /\ last.applyCalls = 1

\* a version-set request whose auxiliary boolean decodes to false is rejected
C6_Witness ==
    /\ InRequestApply /\ last.req.ClusterVersionSet
    /\ Len(last.data) >= 2 /\ ~AuxIsTrue(last.data)
    /\ last.status = 0 /\ last.applyCalls = 0

\* C7: in Fuzzapply the loop generates at most N mod 20 entries; if that is
\* 0, or N does not decode, the call returns 0 without generating an entry
\* or invoking srv.apply; when srv.apply is invoked it gets exactly N mod 20
\* entries, between 1 and 19, in the order they were generated.
C7_EntryCount ==
    InFuzzapply =>
        /\ Len(last.data) = 0 =>
              last.exit = "return" /\ last.status = 0 /\ last.applyCalls = 0
        /\ Len(last.data) >= 1 =>
              LET c == last.data[1] % 20
              IN  /\ Len(last.gens) <= c
                  /\ c = 0 => /\ last.exit = "return" /\ last.status = 0
                              /\ last.gens = <<>> /\ last.applyCalls = 0
                  /\ last.applyCalls = 1 =>
                        /\ c \in 1..19
                        /\ last.ents = [i \in 1..c |-> last.gens[i].val]

\* N = 22 decoded and srv.apply got two entries
C7_Witness ==
    /\ InFuzzapply /\ Len(last.data) >= 1 /\ last.data[1] = 22
    /\ last.applyCalls = 1 /\ Len(last.ents) = 2

GenFailed(g) == ~g.ok \/ g.val.Data = <<>>

\* C8: in Fuzzapply, a generation that fails or yields an empty payload is
\* the last one: the call returns 0 with the cursor where that generation
\* left it, no backend is opened, no context is built, srv.apply is not
\* invoked.  Every entry passed to srv.apply has a non-empty payload.  With
\* N = 5 and no further byte the first generation fails and the call
\* returns 0.
C8_RejectOnFirstBadEntry ==
    InFuzzapply =>
        /\ \A i \in 1..Len(last.gens) :
              GenFailed(last.gens[i]) =>
                  /\ i = Len(last.gens)
                  /\ last.exit = "return" /\ last.status = 0
                  /\ last.position = last.gens[i].pos
                  /\ last.acquired = 0 /\ last.ctx = "none"
                  /\ last.applyCalls = 0
        /\ \A j \in 1..Len(last.ents) : last.ents[j].Data # <<>>
        /\ last.data = <<5>> =>
              /\ Len(last.gens) = 1 /\ ~last.gens[1].ok
              /\ last.exit = "return" /\ last.status = 0

\* the second generated entry has an empty payload and the call returned 0
C8_Witness ==
    /\ InFuzzapply /\ Len(last.gens) = 2
    /\ last.gens[2].ok /\ last.gens[2].val.Data = <<>>
    /\ last.status = 0 /\ last.exit = "return"

\* C9: however a Fuzzapply call ends, every backend it opened is closed by
\* then, so no per-call backend is open between calls.
C9_NoBackendLeak ==
    /\ openTmp = 0
    /\ Returned => last.released = last.acquired

\* a Fuzzapply call opened a backend and ended with a re-raised failure
C9_Witness == InFuzzapply /\ last.exit = "panic" /\ last.acquired = 1

\* C10: a Fuzzapply call that reaches srv.apply runs it on a context built
\* in that call, with nothing applied to it, and leaves the shared context
\* alone; a FuzzapplierV3backendApply call that reaches ab.Apply runs it on
\* the context built by init(), sees what earlier calls applied and adds
\* what it applies; a rejected call leaves the shared context unchanged; no
\* call reassigns ab.
C10_Call ==
    pc = "idle" /\ pc' = "returned" =>
        /\ ab = "srv0" /\ ab' = ab
        /\ last'.target = "Fuzzapply" =>
              /\ shared' = shared
              /\ last'.applyCalls = 1 => last'.ctx # shared.id /\ last'.seen = 0
        /\ last'.target = "FuzzapplierV3backendApply" =>
              /\ last'.applyCalls = 1 =>
                    /\ last'.ctx = shared.id
                    /\ last'.seen = shared.writes
                    /\ shared' = [shared EXCEPT !.writes = @ + last'.fail.wrote]
              /\ last'.applyCalls = 0 => shared' = shared

C10_SharingScope == [][C10_Call]_vars

\* a request apply call ran on a context an earlier call had written to
C10_Witness == InRequestApply /\ last.applyCalls = 1 /\ last.seen >= 1

=============================================================================
